---- MODULE Spec2Model ----
(***************************************************************************)
(* Model of the rkl pod-task runner (project/rkl/src/task/task.rs).        *)
(*                                                                         *)
(* TaskRunner::run drives one pod: it issues RunPodSandbox, then for each  *)
(* container of the manifest, in order, CreateContainer and                *)
(* StartContainer, each awaited before the next is built.  Every `?`       *)
(* returns the RPC's Status to the caller at once.                         *)
(*                                                                         *)
(* Two runs execute concurrently against one runtime service.  The runtime *)
(* is an external collaborator: each RPC it receives it either answers     *)
(* with a fresh identifier (or an ack) or rejects with a Status.           *)
(***************************************************************************)
EXTENDS Integers, Sequences, FiniteSets, TLC

\* Largest number of entries in spec.containers of a modelled manifest.
MaxContainers == 2

\* The concurrently executing runs (one pod each).
Runs == {1, 2}

\* Status kinds the runtime service may answer a rejected RPC with.
Statuses == {"NotFound", "Internal"}

----------------------------------------------------------------------------
(* Manifest model *)

RECURSIVE FlatMap_Rev(_, _)
\* as FlatMap, but each element's items are put behind those of the elements
\* that follow it
FlatMap_Rev(F, s) ==
    IF s = <<>> THEN <<>> ELSE FlatMap_Rev(F, Tail(s)) \o F[Head(s)]

RECURSIVE FlatMap(_, _)
\* iter().flat_map(f).collect() over a sequence; F is a function on elements
\* that returns a sequence.
FlatMap(F, s) ==
    IF s = <<>> THEN <<>> ELSE F[Head(s)] \o FlatMap(F, Tail(s))

Port(p) == [container_port |-> p]

\* ports declared by the k-th container of the modelled manifests
PortsAt(k) ==
    CASE k % 3 = 1 -> <<Port(80)>>
      [] k % 3 = 2 -> <<>>
      [] OTHER     -> <<Port(443), Port(8443)>>

ContainerSpec(name, image, ports) ==
    [name |-> name, image |-> image, ports |-> ports]

ContainerAt(k) ==
    ContainerSpec("c" \o ToString(k), "img" \o ToString(k) \o ":latest", PortsAt(k))

InitContainerSpec == ContainerSpec("init", "busybox:latest", <<Port(9000)>>)

ObjectMeta(name, namespace, labels, annotations) ==
    [name |-> name, namespace |-> namespace,
     labels |-> labels, annotations |-> annotations]

PodSpec(containers, init_containers) ==
    [containers |-> containers, init_containers |-> init_containers]

PodTask(metadata, spec) ==
    [api_version |-> "v1", kind |-> "Pod", metadata |-> metadata, spec |-> spec]

WebMeta == ObjectMeta("web", "default", [k \in {"app"} |-> "web"], [k \in {} |-> ""])

\* The manifests a run may be given: n containers, with or without an init
\* container.
PodTasks ==
    { PodTask(WebMeta, PodSpec([k \in 1..n |-> ContainerAt(k)], ics)) :
        n \in 0..MaxContainers, ics \in {<<>>, <<InitContainerSpec>>} }

----------------------------------------------------------------------------
(* Request builder *)

Namespace(type, mode, path) == [type |-> type, mode |-> mode, path |-> path]

PortMapping(p) ==
    [protocol |-> "TCP", container_port |-> p.container_port,
     host_port |-> 0, host_ip |-> ""]

\* as create_pod_sandbox_config, but the third namespace entry is a second
\* "pid"
create_pod_sandbox_config_DupPid(t) ==
    [metadata |-> [name |-> t.metadata.name,
                   namespace |-> t.metadata.namespace,
                   uid |-> "12345",
                   attempt |-> 0],
     hostname |-> t.metadata.name,
     log_directory |-> "/var/log/pods/" \o t.metadata.namespace \o "_"
                          \o t.metadata.name \o "/",
     dns_config |-> "None",
     port_mappings |->
        FlatMap([c \in {t.spec.containers[i] : i \in DOMAIN t.spec.containers} |->
                    [j \in DOMAIN c.ports |-> PortMapping(c.ports[j])]],
                t.spec.containers),
     labels |-> t.metadata.labels,
     annotations |-> t.metadata.annotations,
     linux |-> [namespaces |-> << Namespace("network", "POD", ""),
                                  Namespace("pid", "POD", ""),
                                  Namespace("pid", "POD", ""),
                                  Namespace("mount", "POD", "") >>],
     windows |-> "None"]

create_pod_sandbox_config(t) ==
    [metadata |-> [name |-> t.metadata.name,
                   namespace |-> t.metadata.namespace,
                   uid |-> "12345",
                   attempt |-> 0],
     hostname |-> t.metadata.name,
     log_directory |-> "/var/log/pods/" \o t.metadata.namespace \o "_"
                          \o t.metadata.name \o "/",
     dns_config |-> "None",
     port_mappings |->
        FlatMap([c \in {t.spec.containers[i] : i \in DOMAIN t.spec.containers} |->
                    [j \in DOMAIN c.ports |-> PortMapping(c.ports[j])]],
                t.spec.containers),
     labels |-> t.metadata.labels,
     annotations |-> t.metadata.annotations,
     linux |-> [namespaces |-> << Namespace("network", "POD", ""),
                                  Namespace("pid", "POD", ""),
                                  Namespace("ipc", "POD", ""),
                                  Namespace("mount", "POD", "") >>],
     windows |-> "None"]

\* as create_container_config, but with the namespace entries of the sandbox
\* configuration
create_container_config_PodNamespaces(t, pod_sandbox_id, container) ==
    [metadata |-> [name |-> container.name, attempt |-> 0],
     image |-> [image |-> container.image,
                annotations |-> [k \in {} |-> ""],
                user_specified_image |-> container.image,
                runtime_handler |-> ""],
     command |-> <<>>, args |-> <<>>, working_dir |-> "",
     envs |-> <<>>, mounts |-> <<>>, devices |-> <<>>,
     labels |-> t.metadata.labels,
     annotations |-> t.metadata.annotations,
     log_path |-> container.name \o "/0.log",
     stdin |-> FALSE, stdin_once |-> FALSE, tty |-> FALSE,
     linux |-> [namespaces |-> << Namespace("network", "POD", ""),
                                  Namespace("pid", "POD", ""),
                                  Namespace("ipc", "POD", ""),
                                  Namespace("mount", "POD", "") >>],
     windows |-> "None"]

create_container_config(t, pod_sandbox_id, container) ==
    [metadata |-> [name |-> container.name, attempt |-> 0],
     image |-> [image |-> container.image,
                annotations |-> [k \in {} |-> ""],
                user_specified_image |-> container.image,
                runtime_handler |-> ""],
     command |-> <<>>, args |-> <<>>, working_dir |-> "",
     envs |-> <<>>, mounts |-> <<>>, devices |-> <<>>,
     labels |-> t.metadata.labels,
     annotations |-> t.metadata.annotations,
     log_path |-> container.name \o "/0.log",
     stdin |-> FALSE, stdin_once |-> FALSE, tty |-> FALSE,
     linux |-> [namespaces |-> << Namespace("network", "CONTAINER", pod_sandbox_id),
                                  Namespace("pid", "CONTAINER", pod_sandbox_id),
                                  Namespace("ipc", "CONTAINER", pod_sandbox_id),
                                  Namespace("mount", "CONTAINER", pod_sandbox_id) >>],
     windows |-> "None"]

build_run_pod_sandbox_request(t) ==
    [config |-> create_pod_sandbox_config(t), runtime_handler |-> ""]

\* as build_create_container_request, but the sandbox configuration sent along
\* takes the sandbox id as its uid
build_create_container_request_UidFromId(t, pod_sandbox_id, container) ==
    [pod_sandbox_id |-> pod_sandbox_id,
     config |-> create_container_config(t, pod_sandbox_id, container),
     sandbox_config |->
        [create_pod_sandbox_config(t) EXCEPT !.metadata.uid = pod_sandbox_id]]

build_create_container_request(t, pod_sandbox_id, container) ==
    [pod_sandbox_id |-> pod_sandbox_id,
     config |-> create_container_config(t, pod_sandbox_id, container),
     sandbox_config |-> create_pod_sandbox_config(t)]

build_start_container_request(cid) == [container_id |-> cid]

----------------------------------------------------------------------------
(* State *)

VARIABLES
    task,                   \* self.task of each run's TaskRunner
    pc,                     \* where each run stands
    pod_sandbox_id,         \* run's local pod_sandbox_id ("" before it is bound)
    idx,                    \* position of the for loop in spec.containers
    container_id,           \* run's local container_id of the current iteration
    container_ids,          \* run's local container_ids
    result,                 \* what run returned
    trace,                  \* per run: RPCs issued and responses received, in order
    run_pod_sandbox_reqs,   \* per run: RunPodSandboxRequests handed to the runtime
    create_container_reqs,  \* per run: CreateContainerRequests handed to the runtime
    start_container_reqs,   \* per run: StartContainerRequests handed to the runtime
    rt_next,                \* runtime service: number of identifiers handed out
    rt_sandboxes,           \* runtime service: sandboxes in the running state
    rt_containers,          \* runtime service: containers, created or running
    file,                   \* the manifest file handed to from_file
    loaded,                 \* what from_file returned
    built                   \* requests obtained by calling the builders directly

vars == <<task, pc, pod_sandbox_id, idx, container_id, container_ids, result,
          trace, run_pod_sandbox_reqs, create_container_reqs,
          start_container_reqs, rt_next, rt_sandboxes, rt_containers,
          file, loaded, built>>

locals == <<pod_sandbox_id, idx, container_id, container_ids>>
runtime == <<rt_next, rt_sandboxes, rt_containers>>
loader == <<file, loaded>>

\* One entry of a run's trace: a request issued ("req") or a response received
\* ("ok", "err") for the RPC of the given kind; idx is the loop position (0 for
\* the sandbox), id the identifier the message carries, status the error kind.
Event(ev, kind, k, id, status) ==
    [ev |-> ev, kind |-> kind, idx |-> k, id |-> id, status |-> status]

\* from_file's outcome: nothing yet, Ok(TaskRunner { task }) or the error
NotLoaded == [tag |-> "None"]
Loaded(t) == [tag |-> "Ok", task |-> t]
ParseError(e) == [tag |-> "Err", error |-> e]

\* a manifest file: whether File::open and read_to_string succeed, whether the
\* text is well-formed YAML, and the document (a mapping from keys to values)
ManifestFile(readable, wellformed, doc) ==
    [readable |-> readable, wellformed |-> wellformed, doc |-> doc]

NoFile == ManifestFile(FALSE, FALSE, [k \in {} |-> ""])

\* the builder calls made so far, per builder
NoneBuilt == [run_pod_sandbox |-> {}, create_container |-> {}, start_container |-> {}]

NoResult == [tag |-> "None"]
Ok(sid, cids) == [tag |-> "Ok", pod_sandbox_id |-> sid, container_ids |-> cids]
Err(status) == [tag |-> "Err", status |-> status]

Init ==
    /\ task \in [Runs -> PodTasks]
    /\ pc = [r \in Runs |-> "Idle"]
    /\ pod_sandbox_id = [r \in Runs |-> ""]
    /\ idx = [r \in Runs |-> 0]
    /\ container_id = [r \in Runs |-> ""]
    /\ container_ids = [r \in Runs |-> <<>>]
    /\ result = [r \in Runs |-> NoResult]
    /\ trace = [r \in Runs |-> <<>>]
    /\ run_pod_sandbox_reqs = [r \in Runs |-> <<>>]
    /\ create_container_reqs = [r \in Runs |-> <<>>]
    /\ start_container_reqs = [r \in Runs |-> <<>>]
    /\ rt_next = 0
    /\ rt_sandboxes = {}
    /\ rt_containers = {}
    /\ file = NoFile
    /\ loaded = NotLoaded
    /\ built = NoneBuilt

----------------------------------------------------------------------------
(* Runtime service (RunPodSandbox, CreateContainer, StartContainer) *)

\* identifiers the runtime hands out: opaque, never handed out twice
SandboxIdOf(n) == "sb-" \o ToString(n)
ContainerIdOf(n) == "ctr-" \o ToString(n)

\* RunPodSandbox answered successfully: a new sandbox runs
RuntimeRunPodSandbox ==
    /\ rt_next' = rt_next + 1
    /\ rt_sandboxes' = rt_sandboxes \cup {SandboxIdOf(rt_next + 1)}
    /\ UNCHANGED rt_containers

\* CreateContainer(req) answered successfully: a new container exists
RuntimeCreateContainer(req) ==
    /\ rt_next' = rt_next + 1
    /\ rt_containers' = rt_containers \cup
          {[id |-> ContainerIdOf(rt_next + 1),
            pod_sandbox_id |-> req.pod_sandbox_id,
            state |-> "created"]}
    /\ UNCHANGED rt_sandboxes

\* StartContainer(req) answered successfully: that container runs
RuntimeStartContainer(req) ==
    /\ rt_containers' =
          {IF c.id = req.container_id THEN [c EXCEPT !.state = "running"] ELSE c :
              c \in rt_containers}
    /\ UNCHANGED <<rt_next, rt_sandboxes>>

----------------------------------------------------------------------------
(* TaskRunner::run *)

\* as Fail, but run does not return: it stays where the error reached it
Fail_Hang(r, kind, status) ==
    /\ pc' = [pc EXCEPT ![r] = "Hung"]
    /\ trace' = [trace EXCEPT ![r] = Append(@, Event("err", kind, idx[r], "", status))]
    /\ UNCHANGED <<loader, built, task, locals, result, run_pod_sandbox_reqs,
                   create_container_reqs, start_container_reqs, runtime>>

\* `?` on a failed RPC of the given kind: run returns Err(status) at once
Fail(r, kind, status) ==
    /\ pc' = [pc EXCEPT ![r] = "Failed"]
    /\ result' = [result EXCEPT ![r] = Err(status)]
    /\ trace' = [trace EXCEPT ![r] = Append(@, Event("err", kind, idx[r], "", status))]
    /\ UNCHANGED <<loader, built, task, locals, run_pod_sandbox_reqs, create_container_reqs,
                   start_container_reqs, runtime>>

\* as ForLoop, but the init containers are iterated before the containers
ForLoop_WithInit(r, sid, cids, k, tr) ==
    LET containers == task[r].spec.init_containers \o task[r].spec.containers IN
    IF k < Len(containers)
    THEN LET container_request ==
                 build_create_container_request(task[r], sid, containers[k + 1])
         IN /\ create_container_reqs' =
                  [create_container_reqs EXCEPT ![r] = Append(@, container_request)]
            /\ trace' = [trace EXCEPT ![r] =
                           Append(tr, Event("req", "CreateContainer", k + 1,
                                            container_request.pod_sandbox_id, ""))]
            /\ idx' = [idx EXCEPT ![r] = k + 1]
            /\ pc' = [pc EXCEPT ![r] = "ContainerRequested"]
            /\ UNCHANGED result
    ELSE /\ pc' = [pc EXCEPT ![r] = "AllStarted"]
         /\ result' = [result EXCEPT ![r] = Ok(sid, cids)]
         /\ trace' = [trace EXCEPT ![r] = tr]
         /\ UNCHANGED <<create_container_reqs, idx>>

\* as ForLoop, but the last container of the manifest is left out
ForLoop_SkipLast(r, sid, cids, k, tr) ==
    LET containers == task[r].spec.containers IN
    IF k < Len(containers) - 1
    THEN LET container_request ==
                 build_create_container_request(task[r], sid, containers[k + 1])
         IN /\ create_container_reqs' =
                  [create_container_reqs EXCEPT ![r] = Append(@, container_request)]
            /\ trace' = [trace EXCEPT ![r] =
                           Append(tr, Event("req", "CreateContainer", k + 1,
                                            container_request.pod_sandbox_id, ""))]
            /\ idx' = [idx EXCEPT ![r] = k + 1]
            /\ pc' = [pc EXCEPT ![r] = "ContainerRequested"]
            /\ UNCHANGED result
    ELSE /\ pc' = [pc EXCEPT ![r] = "AllStarted"]
         /\ result' = [result EXCEPT ![r] = Ok(sid, cids)]
         /\ trace' = [trace EXCEPT ![r] = tr]
         /\ UNCHANGED <<create_container_reqs, idx>>

\* The for loop over self.task.spec.containers, entered with k containers
\* done, sandbox id sid, ids cids pushed so far and tr the trace so far:
\* either the next CreateContainer is built and issued, or run returns Ok.
ForLoop(r, sid, cids, k, tr) ==
    LET containers == task[r].spec.containers IN
    IF k < Len(containers)
    THEN LET container_request ==
                 build_create_container_request(task[r], sid, containers[k + 1])
         IN /\ create_container_reqs' =
                  [create_container_reqs EXCEPT ![r] = Append(@, container_request)]
            /\ trace' = [trace EXCEPT ![r] =
                           Append(tr, Event("req", "CreateContainer", k + 1,
                                            container_request.pod_sandbox_id, ""))]
            /\ idx' = [idx EXCEPT ![r] = k + 1]
            /\ pc' = [pc EXCEPT ![r] = "ContainerRequested"]
            /\ UNCHANGED result
    ELSE /\ pc' = [pc EXCEPT ![r] = "AllStarted"]
         /\ result' = [result EXCEPT ![r] = Ok(sid, cids)]
         /\ trace' = [trace EXCEPT ![r] = tr]
         /\ UNCHANGED <<create_container_reqs, idx>>

\* as IssueRunPodSandbox, but the first CreateContainer is issued without
\* awaiting the sandbox
IssueRunPodSandbox_NoAwait(r) ==
    /\ pc[r] = "Idle"
    /\ run_pod_sandbox_reqs' =
          [run_pod_sandbox_reqs EXCEPT ![r] =
              Append(@, build_run_pod_sandbox_request(task[r]))]
    /\ IF task[r].spec.containers = <<>>
       THEN /\ trace' = [trace EXCEPT ![r] =
                           Append(@, Event("req", "RunPodSandbox", 0, "", ""))]
            /\ UNCHANGED create_container_reqs
       ELSE /\ trace' = [trace EXCEPT ![r] =
                           @ \o << Event("req", "RunPodSandbox", 0, "", ""),
                                   Event("req", "CreateContainer", 1,
                                         pod_sandbox_id[r], "") >>]
            /\ create_container_reqs' =
                  [create_container_reqs EXCEPT ![r] =
                      Append(@, build_create_container_request(
                                    task[r], pod_sandbox_id[r],
                                    task[r].spec.containers[1]))]
    /\ pc' = [pc EXCEPT ![r] = "SandboxRequested"]
    /\ UNCHANGED <<loader, built, task, locals, result, start_container_reqs, runtime>>

\* run is called: the sandbox request is built and issued
IssueRunPodSandbox(r) ==
    /\ pc[r] = "Idle"
    /\ LET pod_request == build_run_pod_sandbox_request(task[r])
       IN run_pod_sandbox_reqs' =
              [run_pod_sandbox_reqs EXCEPT ![r] = Append(@, pod_request)]
    /\ trace' = [trace EXCEPT ![r] = Append(@, Event("req", "RunPodSandbox", 0, "", ""))]
    /\ pc' = [pc EXCEPT ![r] = "SandboxRequested"]
    /\ UNCHANGED <<loader, built, task, locals, result, create_container_reqs,
                   start_container_reqs, runtime>>

\* as RunPodSandboxOk, but the sandbox id is kept in one place shared by all
\* runs
RunPodSandboxOk_Shared(r) ==
    /\ pc[r] = "SandboxRequested"
    /\ RuntimeRunPodSandbox
    /\ LET sid == SandboxIdOf(rt_next + 1)
       IN /\ pod_sandbox_id' = [x \in Runs |-> sid]
          /\ ForLoop(r, sid, <<>>, 0,
                     Append(trace[r], Event("ok", "RunPodSandbox", 0, sid, "")))
    /\ UNCHANGED <<loader, built, task, container_id, container_ids, run_pod_sandbox_reqs,
                   start_container_reqs>>

\* run_pod_sandbox(..).await returns Ok: the id is bound, the loop is entered
RunPodSandboxOk(r) ==
    /\ pc[r] = "SandboxRequested"
    /\ RuntimeRunPodSandbox
    /\ LET sid == SandboxIdOf(rt_next + 1)
       IN /\ pod_sandbox_id' = [pod_sandbox_id EXCEPT ![r] = sid]
          /\ ForLoop(r, sid, <<>>, 0,
                     Append(trace[r], Event("ok", "RunPodSandbox", 0, sid, "")))
    /\ UNCHANGED <<loader, built, task, container_id, container_ids, run_pod_sandbox_reqs,
                   start_container_reqs>>

\* as RunPodSandboxErr, but a first failure is answered by issuing the sandbox
\* request once more
RunPodSandboxErr_Retry(r, status) ==
    /\ pc[r] = "SandboxRequested"
    /\ IF \E p \in DOMAIN trace[r] : trace[r][p].ev = "err"
       THEN Fail(r, "RunPodSandbox", status)
       ELSE /\ run_pod_sandbox_reqs' =
                  [run_pod_sandbox_reqs EXCEPT ![r] =
                      Append(@, build_run_pod_sandbox_request(task[r]))]
            /\ trace' = [trace EXCEPT ![r] =
                           @ \o << Event("err", "RunPodSandbox", 0, "", status),
                                   Event("req", "RunPodSandbox", 0, "", "") >>]
            /\ UNCHANGED <<loader, built, task, pc, locals, result, create_container_reqs,
                           start_container_reqs, runtime>>

\* as RunPodSandboxErr, but the error is swallowed and the loop is entered
RunPodSandboxErr_Continue(r, status) ==
    /\ pc[r] = "SandboxRequested"
    /\ ForLoop(r, pod_sandbox_id[r], <<>>, 0,
               Append(trace[r], Event("err", "RunPodSandbox", 0, "", status)))
    /\ UNCHANGED <<loader, built, task, pod_sandbox_id, container_id, container_ids,
                   run_pod_sandbox_reqs, start_container_reqs, runtime>>

\* run_pod_sandbox(..).await returns Err
RunPodSandboxErr(r, status) ==
    /\ pc[r] = "SandboxRequested"
    /\ Fail(r, "RunPodSandbox", status)

\* as CreateContainerOk, but the id is pushed as soon as the container is
\* created
CreateContainerOk_PushEarly(r) ==
    /\ pc[r] = "ContainerRequested"
    /\ RuntimeCreateContainer(create_container_reqs[r][Len(create_container_reqs[r])])
    /\ LET cid == ContainerIdOf(rt_next + 1)
           start_request == build_start_container_request(cid)
       IN /\ container_id' = [container_id EXCEPT ![r] = cid]
          /\ container_ids' = [container_ids EXCEPT ![r] = Append(@, cid)]
          /\ start_container_reqs' =
                [start_container_reqs EXCEPT ![r] = Append(@, start_request)]
          /\ trace' = [trace EXCEPT ![r] =
                         @ \o << Event("ok", "CreateContainer", idx[r], cid, ""),
                                 Event("req", "StartContainer", idx[r],
                                       start_request.container_id, "") >>]
    /\ pc' = [pc EXCEPT ![r] = "ContainerCreated"]
    /\ UNCHANGED <<loader, built, task, pod_sandbox_id, idx, result,
                   run_pod_sandbox_reqs, create_container_reqs>>

\* create_container(..).await returns Ok: the id is bound, the start request
\* for it is built and issued
CreateContainerOk(r) ==
    /\ pc[r] = "ContainerRequested"
    /\ RuntimeCreateContainer(create_container_reqs[r][Len(create_container_reqs[r])])
    /\ LET cid == ContainerIdOf(rt_next + 1)
           start_request == build_start_container_request(cid)
       IN /\ container_id' = [container_id EXCEPT ![r] = cid]
          /\ start_container_reqs' =
                [start_container_reqs EXCEPT ![r] = Append(@, start_request)]
          /\ trace' = [trace EXCEPT ![r] =
                         @ \o << Event("ok", "CreateContainer", idx[r], cid, ""),
                                 Event("req", "StartContainer", idx[r],
                                       start_request.container_id, "") >>]
    /\ pc' = [pc EXCEPT ![r] = "ContainerCreated"]
    /\ UNCHANGED <<loader, built, task, pod_sandbox_id, idx, container_ids, result,
                   run_pod_sandbox_reqs, create_container_reqs>>

\* as CreateContainerErr, but the sandbox is stopped before the error is
\* returned
CreateContainerErr_Rollback(r, status) ==
    /\ pc[r] = "ContainerRequested"
    /\ pc' = [pc EXCEPT ![r] = "Failed"]
    /\ result' = [result EXCEPT ![r] = Err(status)]
    /\ trace' = [trace EXCEPT ![r] =
                   @ \o << Event("err", "CreateContainer", idx[r], "", status),
                           Event("req", "StopPodSandbox", 0, pod_sandbox_id[r], ""),
                           Event("ok", "StopPodSandbox", 0, pod_sandbox_id[r], "") >>]
    /\ rt_sandboxes' = rt_sandboxes \ {pod_sandbox_id[r]}
    /\ rt_containers' = {c \in rt_containers : c.pod_sandbox_id # pod_sandbox_id[r]}
    /\ UNCHANGED <<loader, built, task, locals, run_pod_sandbox_reqs, create_container_reqs,
                   start_container_reqs, rt_next>>

\* as CreateContainerErr, but the error is swallowed and the start request is
\* issued all the same
CreateContainerErr_StartAnyway(r, status) ==
    /\ pc[r] = "ContainerRequested"
    /\ LET start_request == build_start_container_request(container_id[r])
       IN /\ start_container_reqs' =
                [start_container_reqs EXCEPT ![r] = Append(@, start_request)]
          /\ trace' = [trace EXCEPT ![r] =
                         @ \o << Event("err", "CreateContainer", idx[r], "", status),
                                 Event("req", "StartContainer", idx[r],
                                       start_request.container_id, "") >>]
    /\ pc' = [pc EXCEPT ![r] = "ContainerCreated"]
    /\ UNCHANGED <<loader, built, task, locals, result, run_pod_sandbox_reqs,
                   create_container_reqs, runtime>>

\* create_container(..).await returns Err
CreateContainerErr(r, status) ==
    /\ pc[r] = "ContainerRequested"
    /\ Fail(r, "CreateContainer", status)

\* as StartContainerOk, but the id is pushed at the front of container_ids
StartContainerOk_PushFront(r) ==
    /\ pc[r] = "ContainerCreated"
    /\ RuntimeStartContainer(start_container_reqs[r][Len(start_container_reqs[r])])
    /\ LET cids == <<container_id[r]>> \o container_ids[r]
           started == start_container_reqs[r][Len(start_container_reqs[r])].container_id
       IN /\ container_ids' = [container_ids EXCEPT ![r] = cids]
          /\ ForLoop(r, pod_sandbox_id[r], cids, idx[r],
                     Append(trace[r],
                            Event("ok", "StartContainer", idx[r], started, "")))
    /\ UNCHANGED <<loader, built, task, pod_sandbox_id, container_id, run_pod_sandbox_reqs,
                   start_container_reqs>>

\* start_container(..).await returns Ok: the id is pushed, the loop goes on
StartContainerOk(r) ==
    /\ pc[r] = "ContainerCreated"
    /\ RuntimeStartContainer(start_container_reqs[r][Len(start_container_reqs[r])])
    /\ LET cids == Append(container_ids[r], container_id[r])
           started == start_container_reqs[r][Len(start_container_reqs[r])].container_id
       IN /\ container_ids' = [container_ids EXCEPT ![r] = cids]
          /\ ForLoop(r, pod_sandbox_id[r], cids, idx[r],
                     Append(trace[r],
                            Event("ok", "StartContainer", idx[r], started, "")))
    /\ UNCHANGED <<loader, built, task, pod_sandbox_id, container_id, run_pod_sandbox_reqs,
                   start_container_reqs>>

\* as StartContainerErr, but the loop continues with the next container
StartContainerErr_Continue(r, status) ==
    /\ pc[r] = "ContainerCreated"
    /\ ForLoop(r, pod_sandbox_id[r], container_ids[r], idx[r],
               Append(trace[r], Event("err", "StartContainer", idx[r], "", status)))
    /\ UNCHANGED <<loader, built, task, pod_sandbox_id, container_id, container_ids,
                   run_pod_sandbox_reqs, start_container_reqs, runtime>>

\* start_container(..).await returns Err
StartContainerErr(r, status) ==
    /\ pc[r] = "ContainerCreated"
    /\ Fail(r, "StartContainer", status)

Next ==
    \E r \in Runs :
        \/ IssueRunPodSandbox(r)
        \/ RunPodSandboxOk(r)
        \/ \E s \in Statuses : RunPodSandboxErr(r, s)
        \/ CreateContainerOk(r)
        \/ \E s \in Statuses : CreateContainerErr(r, s)
        \/ StartContainerOk(r)
        \/ \E s \in Statuses : StartContainerErr(r, s)

Spec == Init /\ [][Next]_vars

\* the runtime answers the RPC run r is waiting for
Respond(r) ==
    \/ RunPodSandboxOk(r)
    \/ \E s \in Statuses : RunPodSandboxErr(r, s)
    \/ CreateContainerOk(r)
    \/ \E s \in Statuses : CreateContainerErr(r, s)
    \/ StartContainerOk(r)
    \/ \E s \in Statuses : StartContainerErr(r, s)

\* every run that is called is polled, and every RPC issued is answered in
\* the end
FairSpec ==
    /\ Spec
    /\ \A r \in Runs : WF_vars(IssueRunPodSandbox(r)) /\ WF_vars(Respond(r))

----------------------------------------------------------------------------
(* The request builders called on their own *)

\* Largest number of builder calls made in one behaviour.
MaxBuilds == 2

NginxSpec == ContainerSpec("nginx", "nginx:latest", <<Port(80)>>)
SidecarSpec == ContainerSpec("sidecar", "envoy:v1", <<>>)
ApiSpec == ContainerSpec("api", "api:v2", <<Port(443), Port(8443)>>)

DbMeta == ObjectMeta("db", "prod", [k \in {} |-> ""], [k \in {"owner"} |-> "ops"])

\* the sequences without repetition over a set
InjectiveSeqs(S) ==
    UNION { {f \in [1..n -> S] : \A i, j \in 1..n : i # j => f[i] # f[j]} :
                n \in 0..Cardinality(S) }

\* the PodTasks the builders are called on
BuildTasks ==
    { PodTask(m, PodSpec(cs, ics)) :
        m \in {WebMeta, DbMeta},
        cs \in InjectiveSeqs({NginxSpec, SidecarSpec, ApiSpec}),
        ics \in {<<>>, <<InitContainerSpec>>} }

\* the sandbox identifiers and container identifiers the builders are given
BuildSandboxIds == {"sb-1", "0a1b2c"}
BuildContainerIds == {"ctr-2", "9f8e7d"}

NumBuilt ==
    Cardinality(built.run_pod_sandbox) + Cardinality(built.create_container)
        + Cardinality(built.start_container)

\* two TaskRunners hold the same PodTask
InitBuild ==
    /\ \E t \in BuildTasks : task = [r \in Runs |-> t]
    /\ pc = [r \in Runs |-> "Idle"]
    /\ pod_sandbox_id = [r \in Runs |-> ""]
    /\ idx = [r \in Runs |-> 0]
    /\ container_id = [r \in Runs |-> ""]
    /\ container_ids = [r \in Runs |-> <<>>]
    /\ result = [r \in Runs |-> NoResult]
    /\ trace = [r \in Runs |-> <<>>]
    /\ run_pod_sandbox_reqs = [r \in Runs |-> <<>>]
    /\ create_container_reqs = [r \in Runs |-> <<>>]
    /\ start_container_reqs = [r \in Runs |-> <<>>]
    /\ rt_next = 0
    /\ rt_sandboxes = {}
    /\ rt_containers = {}
    /\ file = NoFile
    /\ loaded = NotLoaded
    /\ built = NoneBuilt

run_state == <<pc, locals, result, trace, run_pod_sandbox_reqs,
               create_container_reqs, start_container_reqs, runtime>>

\* build_run_pod_sandbox_request is called on TaskRunner r
BuildRunPodSandboxRequest(r) ==
    /\ NumBuilt < MaxBuilds
    /\ built' = [built EXCEPT !.run_pod_sandbox = @ \cup
                    {[call |-> NumBuilt + 1, runner |-> r,
                      request |-> build_run_pod_sandbox_request(task[r])]}]
    /\ UNCHANGED <<task, run_state, loader>>

\* as BuildCreateContainerRequest, but the builder counts its calls into the
\* attempt fields
BuildCreateContainerRequest_Counting(r, sid, container) ==
    /\ NumBuilt < MaxBuilds
    /\ built' = [built EXCEPT !.create_container = @ \cup
                    {[call |-> NumBuilt + 1, runner |-> r,
                      pod_sandbox_id |-> sid, container |-> container,
                      request |->
                         [build_create_container_request(task[r], sid, container)
                             EXCEPT !.config.metadata.attempt = NumBuilt,
                                    !.sandbox_config.metadata.attempt = NumBuilt]]}]
    /\ UNCHANGED <<task, run_state, loader>>

\* build_create_container_request is called on TaskRunner r
BuildCreateContainerRequest(r, sid, container) ==
    /\ NumBuilt < MaxBuilds
    /\ built' = [built EXCEPT !.create_container = @ \cup
                    {[call |-> NumBuilt + 1, runner |-> r,
                      pod_sandbox_id |-> sid, container |-> container,
                      request |-> build_create_container_request(task[r], sid, container)]}]
    /\ UNCHANGED <<task, run_state, loader>>

\* build_start_container_request is called on TaskRunner r
BuildStartContainerRequest(r, cid) ==
    /\ NumBuilt < MaxBuilds
    /\ built' = [built EXCEPT !.start_container = @ \cup
                    {[call |-> NumBuilt + 1, runner |-> r, container_id |-> cid,
                      request |-> build_start_container_request(cid)]}]
    /\ UNCHANGED <<task, run_state, loader>>

\* the ContainerSpecs of a PodTask, init containers included
SpecsOf(t) ==
    {t.spec.containers[i] : i \in DOMAIN t.spec.containers}
        \cup {t.spec.init_containers[i] : i \in DOMAIN t.spec.init_containers}

NextBuild ==
    \E r \in Runs :
        \/ BuildRunPodSandboxRequest(r)
        \/ \E sid \in BuildSandboxIds, c \in SpecsOf(task[r]) :
              BuildCreateContainerRequest(r, sid, c)
        \/ \E cid \in BuildContainerIds : BuildStartContainerRequest(r, cid)

SpecBuild == InitBuild /\ [][NextBuild]_vars

----------------------------------------------------------------------------
(* TaskRunner::from_file: the manifest parser *)

\* serde's outcome for one value: the value, or an error
De(v) == [ok |-> TRUE, value |-> v]
DeErr == [ok |-> FALSE]

\* the mapping m has the key k
Has(m, k) == k \in DOMAIN m

\* Port: containerPort is required
de_Port(m) ==
    IF Has(m, "containerPort") THEN De(Port(m.containerPort)) ELSE DeErr

\* Vec<Port>
de_Ports(s) ==
    LET rs == [i \in DOMAIN s |-> de_Port(s[i])]
    IN IF \A i \in DOMAIN s : rs[i].ok
       THEN De([i \in DOMAIN s |-> rs[i].value])
       ELSE DeErr

\* ContainerSpec: name and image are required, ports defaults to empty
de_ContainerSpec(m) ==
    IF ~ (Has(m, "name") /\ Has(m, "image"))
    THEN DeErr
    ELSE LET ports == IF Has(m, "ports") THEN de_Ports(m.ports) ELSE De(<<>>)
         IN IF ports.ok
            THEN De(ContainerSpec(m.name, m.image, ports.value))
            ELSE DeErr

\* Vec<ContainerSpec>
de_ContainerSpecs(s) ==
    LET rs == [i \in DOMAIN s |-> de_ContainerSpec(s[i])]
    IN IF \A i \in DOMAIN s : rs[i].ok
       THEN De([i \in DOMAIN s |-> rs[i].value])
       ELSE DeErr

\* PodSpec: the fields containers and init_containers, under these very
\* names, both defaulting to empty; any other key is ignored
de_PodSpec(m) ==
    LET containers ==
            IF Has(m, "containers") THEN de_ContainerSpecs(m.containers) ELSE De(<<>>)
        init_containers ==
            IF Has(m, "init_containers")
            THEN de_ContainerSpecs(m.init_containers)
            ELSE De(<<>>)
    IN IF containers.ok /\ init_containers.ok
       THEN De(PodSpec(containers.value, init_containers.value))
       ELSE DeErr

\* as de_ObjectMeta, but labels has no default
de_ObjectMeta_LabelsRequired(m) ==
    IF ~ (Has(m, "name") /\ Has(m, "namespace") /\ Has(m, "labels"))
    THEN DeErr
    ELSE De(ObjectMeta(m.name, m.namespace, m.labels,
                       IF Has(m, "annotations") THEN m.annotations
                                                ELSE [k \in {} |-> ""]))

\* ObjectMeta: name and namespace are required, labels and annotations default
\* to empty maps
de_ObjectMeta(m) ==
    IF ~ (Has(m, "name") /\ Has(m, "namespace"))
    THEN DeErr
    ELSE De(ObjectMeta(m.name, m.namespace,
                       IF Has(m, "labels") THEN m.labels ELSE [k \in {} |-> ""],
                       IF Has(m, "annotations") THEN m.annotations
                                                ELSE [k \in {} |-> ""]))

\* PodTask: apiVersion, kind, metadata and spec are all required
de_PodTask(m) ==
    IF ~ (Has(m, "apiVersion") /\ Has(m, "kind") /\ Has(m, "metadata") /\ Has(m, "spec"))
    THEN DeErr
    ELSE LET metadata == de_ObjectMeta(m.metadata)
             spec == de_PodSpec(m.spec)
         IN IF metadata.ok /\ spec.ok
            THEN De([api_version |-> m.apiVersion, kind |-> m.kind,
                     metadata |-> metadata.value, spec |-> spec.value])
            ELSE DeErr

\* File::open / read_to_string, then serde_yaml::from_str; each ? returns the
\* error
from_file(f) ==
    IF ~ f.readable THEN ParseError("io")
    ELSE IF ~ f.wellformed THEN ParseError("yaml")
    ELSE LET t == de_PodTask(f.doc)
         IN IF t.ok THEN Loaded(t.value) ELSE ParseError("yaml")

\* the mapping m without the keys outside K
Restrict(m, K) == [k \in (DOMAIN m) \cap K |-> m[k]]

ContainerDocs ==
    { Restrict([name |-> "nginx", image |-> "nginx:latest",
                ports |-> <<[containerPort |-> 80]>>], K) :
          K \in SUBSET {"name", "image", "ports"} }
      \cup { [name |-> "nginx", image |-> "nginx:latest",
              ports |-> <<[hostPort |-> 80]>>] }

InitContainerDoc == [name |-> "init", image |-> "busybox:latest"]

MetadataDocs ==
    { Restrict([name |-> "web", namespace |-> "default",
                labels |-> [k \in {"app"} |-> "web"],
                annotations |-> [k \in {"owner"} |-> "ops"]], K) :
          K \in SUBSET {"name", "namespace", "labels", "annotations"} }

SpecDocs ==
    { Restrict([containers |-> cs,
                initContainers |-> <<InitContainerDoc>>,
                init_containers |-> <<InitContainerDoc>>], K) :
          cs \in {<<>>} \cup {<<c>> : c \in ContainerDocs},
          K \in SUBSET {"containers", "initContainers", "init_containers"} }

ManifestDocs ==
    { Restrict([apiVersion |-> "v1", kind |-> "Pod", metadata |-> md, spec |-> sp], K) :
          md \in MetadataDocs, sp \in SpecDocs,
          K \in SUBSET {"apiVersion", "kind", "metadata", "spec"} }

\* the manifest files from_file is tried on
ManifestFiles ==
    { ManifestFile(TRUE, TRUE, d) : d \in ManifestDocs }
      \cup { ManifestFile(FALSE, FALSE, [k \in {} |-> ""]),
             ManifestFile(TRUE, FALSE, [k \in {} |-> ""]) }

InitLoad ==
    /\ file \in ManifestFiles
    /\ loaded = NotLoaded
    /\ built = NoneBuilt
    /\ task = [r \in Runs |-> PodTask(WebMeta, PodSpec(<<>>, <<>>))]
    /\ pc = [r \in Runs |-> "Idle"]
    /\ pod_sandbox_id = [r \in Runs |-> ""]
    /\ idx = [r \in Runs |-> 0]
    /\ container_id = [r \in Runs |-> ""]
    /\ container_ids = [r \in Runs |-> <<>>]
    /\ result = [r \in Runs |-> NoResult]
    /\ trace = [r \in Runs |-> <<>>]
    /\ run_pod_sandbox_reqs = [r \in Runs |-> <<>>]
    /\ create_container_reqs = [r \in Runs |-> <<>>]
    /\ start_container_reqs = [r \in Runs |-> <<>>]
    /\ rt_next = 0
    /\ rt_sandboxes = {}
    /\ rt_containers = {}

\* main calls TaskRunner::from_file on the manifest file
FromFile ==
    /\ loaded = NotLoaded
    /\ loaded' = from_file(file)
    /\ UNCHANGED <<file, built, task, run_state>>

NextLoad == FromFile

SpecLoad == InitLoad /\ [][NextLoad]_vars

----------------------------------------------------------------------------
(* Reading a run's trace *)

IsReq(e, kind) == e.ev = "req" /\ e.kind = kind
IsOk(e, kind) == e.ev = "ok" /\ e.kind = kind
IsErr(e, kind) == e.ev = "err" /\ e.kind = kind

ContainerKinds == {"CreateContainer", "StartContainer"}

NumContainers(r) == Len(task[r].spec.containers)

\* the run has received a failure response for an RPC of that kind
Failed(r, kind) == \E p \in DOMAIN trace[r] : IsErr(trace[r][p], kind)

\* the run has issued an RPC of that kind
Issued(r, kind) == \E p \in DOMAIN trace[r] : IsReq(trace[r][p], kind)

----------------------------------------------------------------------------
(* Claims *)

\* C1: in every run, a CreateContainer request is issued only after a
\* successful RunPodSandbox response was received, and a StartContainer
\* request only after the successful CreateContainer response for that same
\* container (same loop position, and the id the start request carries).
C1_Ordering ==
    \A r \in Runs : \A p \in DOMAIN trace[r] :
        /\ IsReq(trace[r][p], "CreateContainer") =>
              \E q \in 1..(p - 1) : IsOk(trace[r][q], "RunPodSandbox")
        /\ IsReq(trace[r][p], "StartContainer") =>
              \E q \in 1..(p - 1) :
                  /\ IsOk(trace[r][q], "CreateContainer")
                  /\ trace[r][q].idx = trace[r][p].idx
                  /\ trace[r][q].id = trace[r][p].id

\* a run has issued the StartContainer of its last container while the other
\* run has been refused an RPC
C1_Witness ==
    \E r \in Runs, o \in Runs :
        /\ r # o
        /\ NumContainers(r) = MaxContainers
        /\ \E p \in DOMAIN trace[r] :
              IsReq(trace[r][p], "StartContainer") /\ trace[r][p].idx = MaxContainers
        /\ pc[o] = "Failed"

\* C2: if RunPodSandbox fails, the run is Failed, has returned the error, and
\* has issued no CreateContainer and no StartContainer, whatever the manifest.
C2_SandboxFailureStops ==
    \A r \in Runs :
        Failed(r, "RunPodSandbox") =>
            /\ pc[r] = "Failed"
            /\ result[r].tag = "Err"
            /\ ~ Issued(r, "CreateContainer")
            /\ ~ Issued(r, "StartContainer")
            /\ create_container_reqs[r] = <<>>
            /\ start_container_reqs[r] = <<>>
            /\ Len(trace[r]) = 2

\* RunPodSandbox failed for a run whose manifest has containers, and the other
\* run has meanwhile finished
C2_Witness ==
    \E r \in Runs, o \in Runs :
        /\ r # o
        /\ Failed(r, "RunPodSandbox")
        /\ NumContainers(r) = MaxContainers
        /\ pc[o] = "AllStarted"

\* C3: if CreateContainer or StartContainer fails for the k-th container, the
\* run is Failed at once and that failure is the last thing in its trace: no
\* request for containers k+1..n was issued, and a failed create for k is not
\* followed by a start for k.
C3_ContainerFailureStops ==
    \A r \in Runs : \A p \in DOMAIN trace[r] :
        (trace[r][p].ev = "err" /\ trace[r][p].kind \in ContainerKinds) =>
            LET k == trace[r][p].idx IN
            /\ pc[r] = "Failed"
            /\ result[r] = Err(trace[r][p].status)
            /\ p = Len(trace[r])
            /\ \A q \in DOMAIN trace[r] :
                  trace[r][q].ev = "req" => trace[r][q].idx <= k
            /\ Len(create_container_reqs[r]) = k
            /\ IF trace[r][p].kind = "CreateContainer"
               THEN /\ Len(start_container_reqs[r]) = k - 1
                    /\ \A q \in DOMAIN trace[r] :
                          IsReq(trace[r][q], "StartContainer") => trace[r][q].idx < k
               ELSE Len(start_container_reqs[r]) = k

\* one run failed creating its first container and the other failed starting
\* its first, both with containers left in the manifest
C3_Witness ==
    \E r \in Runs, o \in Runs :
        /\ r # o
        /\ NumContainers(r) > 1 /\ NumContainers(o) > 1
        /\ \E p \in DOMAIN trace[r] :
              IsErr(trace[r][p], "CreateContainer") /\ trace[r][p].idx = 1
        /\ \E p \in DOMAIN trace[o] :
              IsErr(trace[o][p], "StartContainer") /\ trace[o][p].idx = 1

\* the identifiers a caller can read off what run returned: the Ok pair holds
\* the sandbox id and the container ids, an Err holds the Status alone
ResultIds(res) ==
    IF res.tag = "Ok"
    THEN {res.pod_sandbox_id} \cup {res.container_ids[i] : i \in DOMAIN res.container_ids}
    ELSE {}

\* C4: when a run has failed, what it returned includes, with the error, the
\* sandbox id if RunPodSandbox had succeeded and the ids of all containers
\* already started.
C4_FailureResultCarriesIds ==
    \A r \in Runs :
        pc[r] = "Failed" =>
            /\ result[r].tag = "Err"
            /\ \A p \in DOMAIN trace[r] :
                  (IsOk(trace[r][p], "RunPodSandbox") \/ IsOk(trace[r][p], "StartContainer"))
                      => trace[r][p].id \in ResultIds(result[r])

IsRequest(e) == e.ev = "req"

\* the RPCs a run has issued, in order: kind and loop position
Requests(r) ==
    LET reqs == SelectSeq(trace[r], IsRequest)
    IN [p \in DOMAIN reqs |-> <<reqs[p].kind, reqs[p].idx>>]

\* one RunPodSandbox, then a CreateContainer/StartContainer pair for each of
\* the positions 1..n
ExpectedRequests(n) ==
    <<  <<"RunPodSandbox", 0>>  >> \o
    [j \in 1..(2 * n) |->
        IF j % 2 = 1 THEN <<"CreateContainer", (j + 1) \div 2>>
                     ELSE <<"StartContainer", j \div 2>>]

\* every RPC the run has issued was answered, and none was refused
AllSucceeded(r) ==
    /\ trace[r] # <<>>
    /\ trace[r][Len(trace[r])].ev = "ok"
    /\ \A p \in DOMAIN trace[r] : trace[r][p].ev # "err"

\* C5: a run in which every RPC succeeded has ended in AllStarted after
\* exactly one RunPodSandbox followed by n CreateContainer/StartContainer
\* pairs, the i-th pair built from the i-th container spec of the manifest and
\* starting the container its create returned; for n = 0 that is the single
\* RunPodSandbox.  AllStarted is reached in no other way.
C5_Cardinality ==
    \A r \in Runs :
        LET n == NumContainers(r) IN
        /\ AllSucceeded(r) <=> pc[r] = "AllStarted"
        /\ pc[r] = "AllStarted" =>
              /\ Requests(r) = ExpectedRequests(n)
              /\ Len(run_pod_sandbox_reqs[r]) = 1
              /\ Len(create_container_reqs[r]) = n
              /\ Len(start_container_reqs[r]) = n
              /\ \A i \in 1..n :
                    /\ create_container_reqs[r][i].config.metadata.name =
                          task[r].spec.containers[i].name
                    /\ create_container_reqs[r][i].config.image.image =
                          task[r].spec.containers[i].image
                    /\ \E p \in DOMAIN trace[r] :
                          /\ IsOk(trace[r][p], "CreateContainer")
                          /\ trace[r][p].idx = i
                          /\ trace[r][p].id = start_container_reqs[r][i].container_id

\* one run has ended in AllStarted on the largest manifest, the other on a
\* manifest without containers
C5_Witness ==
    \E r \in Runs, o \in Runs :
        /\ pc[r] = "AllStarted" /\ NumContainers(r) = MaxContainers
        /\ pc[o] = "AllStarted" /\ NumContainers(o) = 0
        /\ Len(trace[o]) = 2

\* C6: when a run reaches AllStarted its result is Ok of the sandbox id the
\* RunPodSandbox response returned and of a sequence with one id per manifest
\* container, the i-th being the id the CreateContainer response for the i-th
\* container spec returned, each with a successful StartContainer.
C6_AllStartedResult ==
    \A r \in Runs :
        pc[r] = "AllStarted" =>
            /\ result[r].tag = "Ok"
            /\ \E p \in DOMAIN trace[r] :
                  /\ IsOk(trace[r][p], "RunPodSandbox")
                  /\ trace[r][p].id = result[r].pod_sandbox_id
            /\ Len(result[r].container_ids) = NumContainers(r)
            /\ \A i \in 1..NumContainers(r) :
                  /\ \E p \in DOMAIN trace[r] :
                        /\ IsOk(trace[r][p], "CreateContainer")
                        /\ trace[r][p].idx = i
                        /\ trace[r][p].id = result[r].container_ids[i]
                  /\ \E p \in DOMAIN trace[r] :
                        /\ IsOk(trace[r][p], "StartContainer")
                        /\ trace[r][p].idx = i
                        /\ trace[r][p].id = result[r].container_ids[i]
                  /\ create_container_reqs[r][i].config.metadata.name =
                        task[r].spec.containers[i].name
                  /\ [id |-> result[r].container_ids[i],
                      pod_sandbox_id |-> result[r].pod_sandbox_id,
                      state |-> "running"] \in rt_containers

\* both runs have reached AllStarted on the largest manifest
C6_Witness ==
    \A r \in Runs :
        /\ pc[r] = "AllStarted"
        /\ NumContainers(r) = MaxContainers
        /\ Len(result[r].container_ids) = MaxContainers

\* how many requests of that kind and loop position the run has issued
NumIssued(r, kind, k) ==
    Cardinality({p \in DOMAIN trace[r] :
                    IsReq(trace[r][p], kind) /\ trace[r][p].idx = k})

\* how many RPCs the run has issued in all
NumRequests(r) == Len(SelectSeq(trace[r], IsRequest))

\* the run has received a failure response
HasFailed(r) == \E p \in DOMAIN trace[r] : trace[r][p].ev = "err"

C7_AtMostOnce ==
    \A r \in Runs :
        /\ NumIssued(r, "RunPodSandbox", 0) <= 1
        /\ Len(run_pod_sandbox_reqs[r]) <= 1
        /\ \A k \in 1..NumContainers(r) :
              /\ NumIssued(r, "CreateContainer", k) <= 1
              /\ NumIssued(r, "StartContainer", k) <= 1
              /\ Cardinality({i \in DOMAIN create_container_reqs[r] :
                                 create_container_reqs[r][i].config.metadata.name =
                                     task[r].spec.containers[k].name}) <= 1
        /\ NumRequests(r) =
              Len(run_pod_sandbox_reqs[r]) + Len(create_container_reqs[r])
                  + Len(start_container_reqs[r])
        /\ NumRequests(r) <= 1 + 2 * NumContainers(r)

C7_NothingAfterFailure ==
    \A r \in Runs :
        HasFailed(r) =>
            /\ NumRequests(r)' = NumRequests(r)
            /\ trace'[r] = trace[r]

\* C7: no RPC is retried: a run issues RunPodSandbox at most once and, for
\* each container spec, at most one CreateContainer and at most one
\* StartContainer, whether answered by success or failure; and once an RPC of
\* a run has failed, the number of RPCs that run has issued never grows.
C7_NoRetry == [] C7_AtMostOnce /\ [][C7_NothingAfterFailure]_vars

\* one run failed at its last StartContainer, the other at RunPodSandbox
C7_Witness ==
    \E r \in Runs, o \in Runs :
        /\ r # o
        /\ NumContainers(r) = MaxContainers
        /\ NumRequests(r) = 1 + 2 * MaxContainers
        /\ Failed(r, "StartContainer")
        /\ Failed(o, "RunPodSandbox") /\ NumRequests(o) = 1

\* the RPCs of a run that are issued and not yet answered
Outstanding(r) ==
    NumRequests(r)
        - Cardinality({p \in DOMAIN trace[r] : trace[r][p].ev \in {"ok", "err"}})

\* C8: within one run at most one RPC is outstanding at any moment: every
\* request but the first directly follows the successful response to the
\* previous request, and every response directly follows its own request, so
\* no two RPCs of a run overlap.
C8_OneOutstanding ==
    \A r \in Runs :
        /\ Outstanding(r) \in {0, 1}
        /\ Outstanding(r) = 1 <=>
              pc[r] \in {"SandboxRequested", "ContainerRequested", "ContainerCreated"}
        /\ \A p \in DOMAIN trace[r] :
              IF trace[r][p].ev = "req"
              THEN p = 1 \/ trace[r][p - 1].ev = "ok"
              ELSE /\ p > 1
                   /\ trace[r][p - 1].ev = "req"
                   /\ trace[r][p - 1].kind = trace[r][p].kind
                   /\ trace[r][p - 1].idx = trace[r][p].idx

\* both runs wait for an answer at the same time, one for its last
\* StartContainer, the other for a CreateContainer
C8_Witness ==
    \E r \in Runs, o \in Runs :
        /\ r # o
        /\ pc[r] = "ContainerCreated" /\ idx[r] = MaxContainers
        /\ pc[o] = "ContainerRequested"
        /\ Outstanding(r) = 1 /\ Outstanding(o) = 1

\* the identifiers the runtime has returned to the run
ReturnedTo(r) ==
    {trace[r][p].id : p \in {q \in DOMAIN trace[r] :
                                \/ IsOk(trace[r][q], "RunPodSandbox")
                                \/ IsOk(trace[r][q], "CreateContainer")}}

\* all a run holds: its position, its handle bookkeeping, what it returned and
\* the requests it has sent
RunState(r) ==
    <<pc[r], pod_sandbox_id[r], idx[r], container_id[r], container_ids[r],
      result[r], run_pod_sandbox_reqs[r], create_container_reqs[r],
      start_container_reqs[r]>>

C9_OwnIdsOnly ==
    \A r \in Runs :
        /\ \A p \in DOMAIN trace[r] :
              /\ IsReq(trace[r][p], "CreateContainer") =>
                    \E q \in 1..(p - 1) :
                        /\ IsOk(trace[r][q], "RunPodSandbox")
                        /\ trace[r][q].id = trace[r][p].id
              /\ IsReq(trace[r][p], "StartContainer") =>
                    \E q \in 1..(p - 1) :
                        /\ IsOk(trace[r][q], "CreateContainer")
                        /\ trace[r][q].id = trace[r][p].id
        /\ \A i \in DOMAIN create_container_reqs[r] :
              create_container_reqs[r][i].pod_sandbox_id \in ReturnedTo(r)
        /\ \A i \in DOMAIN start_container_reqs[r] :
              start_container_reqs[r][i].container_id \in ReturnedTo(r)
        /\ ResultIds(result[r]) \subseteq ReturnedTo(r)
        /\ pod_sandbox_id[r] \in ReturnedTo(r) \cup {""}
        /\ \A i \in DOMAIN container_ids[r] : container_ids[r][i] \in ReturnedTo(r)
        /\ \A o \in Runs \ {r} :
              /\ ReturnedTo(r) \cap ReturnedTo(o) = {}
              /\ ResultIds(result[r]) \cap ReturnedTo(o) = {}
              /\ \A i \in DOMAIN create_container_reqs[r] :
                    create_container_reqs[r][i].pod_sandbox_id \notin ReturnedTo(o)
              /\ \A i \in DOMAIN start_container_reqs[r] :
                    start_container_reqs[r][i].container_id \notin ReturnedTo(o)

C9_NoInterference ==
    \A r \in Runs :
        /\ trace'[r] = trace[r] => RunState(r)' = RunState(r)
        /\ (pc[r] # "Failed" /\ pc'[r] = "Failed") =>
              \A o \in Runs \ {r} :
                  RunState(o)' = RunState(o) /\ trace'[o] = trace[o]

\* C9: with two runs interleaved in every way against one runtime service,
\* each CreateContainer request of a run carries the sandbox id returned to
\* that run, each StartContainer a container id returned to that run, a run's
\* result and bookkeeping hold no identifier returned to the other run, and a
\* step of one run (its failure included) leaves the other run's state and
\* result as they were.
C9_RunsArePrivate == [] C9_OwnIdsOnly /\ [][C9_NoInterference]_vars

\* the two runs received their identifiers interleaved; one has failed, the
\* other has then reached AllStarted on the largest manifest
C9_Witness ==
    \E r \in Runs, o \in Runs :
        /\ r # o
        /\ pc[r] = "Failed" /\ Failed(r, "StartContainer")
        /\ pc[o] = "AllStarted" /\ NumContainers(o) = MaxContainers
        /\ \E p \in DOMAIN trace[r], q \in DOMAIN trace[o] :
              /\ IsOk(trace[r][p], "RunPodSandbox") /\ trace[r][p].id = SandboxIdOf(1)
              /\ IsOk(trace[o][q], "RunPodSandbox") /\ trace[o][q].id = SandboxIdOf(2)
        /\ ContainerIdOf(3) \in ReturnedTo(r)
        /\ ContainerIdOf(4) \in ReturnedTo(o)

RpcKinds == {"RunPodSandbox", "CreateContainer", "StartContainer"}

C10_NothingReclaimed ==
    \A r \in Runs :
        /\ \A p \in DOMAIN trace[r] : trace[r][p].kind \in RpcKinds
        /\ \A p \in DOMAIN trace[r] :
              /\ IsOk(trace[r][p], "RunPodSandbox") => trace[r][p].id \in rt_sandboxes
              /\ IsOk(trace[r][p], "StartContainer") =>
                    \E c \in rt_containers :
                        c.id = trace[r][p].id /\ c.state = "running"
        /\ pc[r] = "Failed" =>
              /\ pod_sandbox_id[r] # "" => pod_sandbox_id[r] \in rt_sandboxes
              /\ \A i \in DOMAIN container_ids[r] :
                    [id |-> container_ids[r][i], pod_sandbox_id |-> pod_sandbox_id[r],
                     state |-> "running"] \in rt_containers

C10_RuntimeKeeps ==
    /\ rt_sandboxes \subseteq rt_sandboxes'
    /\ \A c \in rt_containers : c.state = "running" => c \in rt_containers'

\* C10: the driver performs no rollback: the only RPC kinds a run issues are
\* RunPodSandbox, CreateContainer and StartContainer, no step takes a sandbox
\* or a running container out of the running state, and when a run has failed
\* its sandbox and every container it had started are still running in the
\* runtime service.
C10_NoRollback == [] C10_NothingReclaimed /\ [][C10_RuntimeKeeps]_vars

\* a run failed creating its last container, after its sandbox and an earlier
\* container were started
C10_Witness ==
    \E r \in Runs :
        /\ pc[r] = "Failed"
        /\ \E p \in DOMAIN trace[r] :
              IsErr(trace[r][p], "CreateContainer") /\ trace[r][p].idx = MaxContainers
        /\ Len(container_ids[r]) = MaxContainers - 1
        /\ Len(container_ids[r]) > 0
        /\ pod_sandbox_id[r] \in rt_sandboxes

\* the sandbox ids the runtime has returned to the run
SandboxIdsOf(r) ==
    {trace[r][p].id : p \in {q \in DOMAIN trace[r] : IsOk(trace[r][q], "RunPodSandbox")}}

\* the container ids the runtime has returned to the run
ContainerIdsOf(r) ==
    {trace[r][p].id : p \in {q \in DOMAIN trace[r] : IsOk(trace[r][q], "CreateContainer")}}

\* C11: every CreateContainer request of a run is scoped to the one sandbox id
\* that run's RunPodSandbox response returned: pod_sandbox_id is that id and
\* each of the four namespace entries has mode CONTAINER (join an existing
\* namespace) and that id as path; so every container handle of the run
\* belongs to exactly one sandbox handle, the run's own.
C11_ScopedToSandbox ==
    \A r \in Runs :
        /\ Cardinality(SandboxIdsOf(r)) <= 1
        /\ \A i \in DOMAIN create_container_reqs[r] :
              LET req == create_container_reqs[r][i]
                  namespaces == req.config.linux.namespaces
              IN /\ req.pod_sandbox_id \in SandboxIdsOf(r)
                 /\ Len(namespaces) = 4
                 /\ \A j \in DOMAIN namespaces :
                       /\ namespaces[j].mode = "CONTAINER"
                       /\ namespaces[j].path = req.pod_sandbox_id
                       /\ namespaces[j].path \in SandboxIdsOf(r)
        /\ \A cid \in ContainerIdsOf(r) :
              /\ Cardinality({c \in rt_containers : c.id = cid}) = 1
              /\ \A c \in rt_containers :
                    c.id = cid => c.pod_sandbox_id \in SandboxIdsOf(r)

\* both runs have had all containers of the largest manifest created, each in
\* its own sandbox
C11_Witness ==
    /\ \A r \in Runs :
          /\ Len(create_container_reqs[r]) = MaxContainers
          /\ Cardinality(ContainerIdsOf(r)) = MaxContainers
    /\ SandboxIdsOf(1) # SandboxIdsOf(2)

NamespaceTypes == {"network", "pid", "ipc", "mount"}

\* exactly four entries, one of each type
FourNamespaces(namespaces) ==
    /\ Len(namespaces) = 4
    /\ \A j \in DOMAIN namespaces : namespaces[j].type \in NamespaceTypes
    /\ \A ty \in NamespaceTypes :
          Cardinality({j \in DOMAIN namespaces : namespaces[j].type = ty}) = 1

\* C12: every sandbox configuration and every container configuration the
\* request builder produces, for any manifest and any sandbox id, holds
\* exactly four namespace entries, of types network, pid, ipc and mount, each
\* exactly once.
C12_FourNamespaces ==
    /\ \A b \in built.run_pod_sandbox :
          FourNamespaces(b.request.config.linux.namespaces)
    /\ \A b \in built.create_container :
          /\ FourNamespaces(b.request.config.linux.namespaces)
          /\ FourNamespaces(b.request.sandbox_config.linux.namespaces)

\* a sandbox request and a container request were built from a manifest with
\* three containers
C12_Witness ==
    /\ built.run_pod_sandbox # {}
    /\ built.create_container # {}
    /\ \A r \in Runs : Len(task[r].spec.containers) = 3

RECURSIVE PortsUpTo(_, _)
\* how many ports the first k containers of cs declare together
PortsUpTo(cs, k) ==
    IF k = 0 THEN 0 ELSE PortsUpTo(cs, k - 1) + Len(cs[k].ports)

\* the port mappings are those of the containers cs, container after
\* container, port after port
IsFlattened(port_mappings, cs) ==
    /\ Len(port_mappings) = PortsUpTo(cs, Len(cs))
    /\ \A i \in DOMAIN cs : \A j \in DOMAIN cs[i].ports :
          port_mappings[PortsUpTo(cs, i - 1) + j] =
              [protocol |-> "TCP",
               container_port |-> cs[i].ports[j].container_port,
               host_port |-> 0,
               host_ip |-> ""]

\* the container ports of a sequence of port mappings
ContainerPorts(port_mappings) ==
    [j \in DOMAIN port_mappings |-> port_mappings[j].container_port]

\* C13: the port mappings of a sandbox request are the concatenation, over the
\* containers in manifest order, of each container's ports in declaration
\* order, each with protocol TCP, the declared container port, host port 0 and
\* empty host IP; containers without ports and init containers add nothing;
\* ports [80], [], [443, 8443] give exactly [80, 443, 8443].
C13_PortFlattening ==
    \A b \in built.run_pod_sandbox :
        LET cs == task[b.runner].spec.containers
            pm == b.request.config.port_mappings
        IN /\ IsFlattened(pm, cs)
           /\ cs = <<NginxSpec, SidecarSpec, ApiSpec>> =>
                 ContainerPorts(pm) = <<80, 443, 8443>>
           /\ cs = <<>> => pm = <<>>
           /\ \A j \in DOMAIN pm : pm[j].container_port # 9000

\* the sandbox request was built for containers with ports [80], [],
\* [443, 8443] and an init container with a port of its own
C13_Witness ==
    \E b \in built.run_pod_sandbox :
        /\ task[b.runner].spec.containers = <<NginxSpec, SidecarSpec, ApiSpec>>
        /\ task[b.runner].spec.init_containers = <<InitContainerSpec>>
        /\ Len(b.request.config.port_mappings) = 3

\* s is an initial part of t
IsPrefix(s, t) ==
    /\ Len(s) <= Len(t)
    /\ \A i \in DOMAIN s : s[i] = t[i]

\* what a CreateContainer request says apart from the sandbox id
CreateRequestBody(req) ==
    <<req.config.metadata, req.config.image, req.config.log_path,
      req.config.labels, req.config.annotations, req.sandbox_config>>

\* C14: init containers are never scheduled: no CreateContainer is built from
\* an init-container spec (so no StartContainer follows one), the RPCs of a
\* run are an initial part of the sequence that spec.containers alone
\* determines, and two runs whose manifests differ only in their init
\* containers issue the same RPCs with the same contents.
C14_InitContainersSkipped ==
    \A r \in Runs :
        /\ IsPrefix(Requests(r), ExpectedRequests(NumContainers(r)))
        /\ Len(create_container_reqs[r]) <= NumContainers(r)
        /\ Len(start_container_reqs[r]) <= Len(create_container_reqs[r])
        /\ \A i \in DOMAIN create_container_reqs[r] :
              /\ create_container_reqs[r][i].config.metadata.name =
                    task[r].spec.containers[i].name
              /\ \A j \in DOMAIN task[r].spec.init_containers :
                    create_container_reqs[r][i].config.metadata.name #
                        task[r].spec.init_containers[j].name
        /\ \A o \in Runs :
              task[o].spec.containers = task[r].spec.containers =>
                  /\ IsPrefix(run_pod_sandbox_reqs[r], run_pod_sandbox_reqs[o])
                        \/ IsPrefix(run_pod_sandbox_reqs[o], run_pod_sandbox_reqs[r])
                  /\ IsPrefix(Requests(r), Requests(o))
                        \/ IsPrefix(Requests(o), Requests(r))
                  /\ \A i \in DOMAIN create_container_reqs[r] \cap
                               DOMAIN create_container_reqs[o] :
                        CreateRequestBody(create_container_reqs[r][i]) =
                            CreateRequestBody(create_container_reqs[o][i])
                  /\ (pc[r] = "AllStarted" /\ pc[o] = "AllStarted") =>
                        Requests(r) = Requests(o)

\* two runs on the largest manifest, one with an init container and one
\* without, have both reached AllStarted
C14_Witness ==
    \E r \in Runs, o \in Runs :
        /\ task[r].spec.init_containers # <<>>
        /\ task[o].spec.init_containers = <<>>
        /\ task[r].spec.containers = task[o].spec.containers
        /\ NumContainers(r) = MaxContainers
        /\ pc[r] = "AllStarted" /\ pc[o] = "AllStarted"

ContainerDocComplete(c) ==
    /\ Has(c, "name") /\ Has(c, "image")
    /\ Has(c, "ports") => \A j \in DOMAIN c.ports : Has(c.ports[j], "containerPort")

\* the manifest has every required key
DocComplete(d) ==
    /\ Has(d, "apiVersion") /\ Has(d, "kind") /\ Has(d, "metadata") /\ Has(d, "spec")
    /\ Has(d.metadata, "name") /\ Has(d.metadata, "namespace")
    /\ Has(d.spec, "containers") =>
          \A i \in DOMAIN d.spec.containers : ContainerDocComplete(d.spec.containers[i])
    /\ Has(d.spec, "init_containers") =>
          \A i \in DOMAIN d.spec.init_containers :
              ContainerDocComplete(d.spec.init_containers[i])

\* C16: loading a manifest yields either a complete PodTask or an error and
\* nothing else: it fails when the file is unreadable, the text malformed, or
\* one of apiVersion, kind, metadata (name, namespace), spec, a container's
\* name or image, a port's containerPort is missing, and only then; absent
\* labels, annotations, ports or init containers are no error and come out as
\* empty collections.
C16_LoadAllOrNothing ==
    loaded # NotLoaded =>
        /\ loaded.tag \in {"Ok", "Err"}
        /\ loaded.tag = "Ok" <=>
              (file.readable /\ file.wellformed /\ DocComplete(file.doc))
        /\ loaded.tag = "Err" => DOMAIN loaded = {"tag", "error"}
        /\ loaded.tag = "Ok" =>
              LET t == loaded.task
                  d == file.doc
              IN /\ DOMAIN loaded = {"tag", "task"}
                 /\ DOMAIN t = {"api_version", "kind", "metadata", "spec"}
                 /\ t.api_version = d.apiVersion /\ t.kind = d.kind
                 /\ t.metadata.name = d.metadata.name
                 /\ t.metadata.namespace = d.metadata.namespace
                 /\ t.metadata.labels =
                       IF Has(d.metadata, "labels") THEN d.metadata.labels
                                                    ELSE [k \in {} |-> ""]
                 /\ t.metadata.annotations =
                       IF Has(d.metadata, "annotations") THEN d.metadata.annotations
                                                         ELSE [k \in {} |-> ""]
                 /\ IF Has(d.spec, "containers")
                    THEN /\ Len(t.spec.containers) = Len(d.spec.containers)
                         /\ \A i \in DOMAIN d.spec.containers :
                               /\ t.spec.containers[i].name = d.spec.containers[i].name
                               /\ t.spec.containers[i].image = d.spec.containers[i].image
                               /\ ~ Has(d.spec.containers[i], "ports") =>
                                     t.spec.containers[i].ports = <<>>
                    ELSE t.spec.containers = <<>>
                 /\ (~ Has(d.spec, "initContainers") /\ ~ Has(d.spec, "init_containers"))
                       => t.spec.init_containers = <<>>

\* a manifest without labels, annotations, ports and init containers was
\* loaded
C16_Witness ==
    /\ loaded.tag = "Ok"
    /\ DOMAIN file.doc.metadata = {"name", "namespace"}
    /\ DOMAIN file.doc.spec = {"containers"}
    /\ Len(file.doc.spec.containers) = 1
    /\ ~ Has(file.doc.spec.containers[1], "ports")
    /\ loaded.task.spec.containers[1].ports = <<>>

\* C17: for a manifest whose spec.initContainers key lists m container specs,
\* the loaded PodTask's init-container sequence holds those m specs in order.
C17_InitContainersParsed ==
    (loaded.tag = "Ok" /\ Has(file.doc.spec, "initContainers")) =>
        LET docs == file.doc.spec.initContainers
            ics == loaded.task.spec.init_containers
        IN /\ Len(ics) = Len(docs)
           /\ \A i \in DOMAIN docs :
                 i \in DOMAIN ics /\ ics[i].name = docs[i].name
                                  /\ ics[i].image = docs[i].image

IsStartOk(e) == IsOk(e, "StartContainer")
IsCreateOk(e) == IsOk(e, "CreateContainer")

\* the ids of the containers whose StartContainer has succeeded, in the order
\* of the responses
StartedIds(r) ==
    LET oks == SelectSeq(trace[r], IsStartOk)
    IN [i \in DOMAIN oks |-> oks[i].id]

\* the ids the CreateContainer responses have returned, in order
CreatedIds(r) ==
    LET oks == SelectSeq(trace[r], IsCreateOk)
    IN [i \in DOMAIN oks |-> oks[i].id]

\* C18: at every point of a run container_ids holds exactly the ids of the
\* containers whose StartContainer has succeeded, in manifest order: a
\* container that is created but not yet started, or whose start failed, is
\* not in it; and the StartContainer request for the i-th container carries
\* the id the i-th CreateContainer response returned.
C18_Bookkeeping ==
    \A r \in Runs :
        /\ container_ids[r] = StartedIds(r)
        /\ IsPrefix(container_ids[r], CreatedIds(r))
        /\ Len(CreatedIds(r)) - Len(container_ids[r]) \in {0, 1}
        /\ \A i \in DOMAIN container_ids[r] :
              \E p \in DOMAIN trace[r] :
                  /\ IsOk(trace[r][p], "CreateContainer")
                  /\ trace[r][p].idx = i
                  /\ trace[r][p].id = container_ids[r][i]
        /\ Len(start_container_reqs[r]) = Len(CreatedIds(r))
        /\ \A i \in DOMAIN start_container_reqs[r] :
              start_container_reqs[r][i].container_id = CreatedIds(r)[i]
        /\ pc[r] = "ContainerCreated" =>
              /\ container_id[r] = CreatedIds(r)[Len(CreatedIds(r))]
              /\ \A i \in DOMAIN container_ids[r] : container_ids[r][i] # container_id[r]
        /\ Failed(r, "StartContainer") =>
              /\ Len(container_ids[r]) = Len(CreatedIds(r)) - 1
              /\ \A i \in DOMAIN container_ids[r] : container_ids[r][i] # container_id[r]

\* one run waits for the start of its last container with the earlier one in
\* its list, the other has failed to start its second container
C18_Witness ==
    \E r \in Runs, o \in Runs :
        /\ r # o
        /\ pc[r] = "ContainerCreated" /\ idx[r] = MaxContainers
        /\ Len(container_ids[r]) = MaxContainers - 1
        /\ Failed(o, "StartContainer") /\ idx[o] = MaxContainers
        /\ Len(container_ids[o]) = MaxContainers - 1
        /\ Len(container_ids[o]) > 0

\* C19: every CreateContainer request of a run carries as sandbox_config the
\* very configuration sent in that run's RunPodSandbox request, for every
\* container, and whatever sandbox id the runtime returned.
C19_SameSandboxConfig ==
    \A r \in Runs :
        /\ create_container_reqs[r] # <<>> => Len(run_pod_sandbox_reqs[r]) = 1
        /\ \A i \in DOMAIN create_container_reqs[r] :
              create_container_reqs[r][i].sandbox_config = run_pod_sandbox_reqs[r][1].config
        /\ \A o \in Runs : \A i \in DOMAIN create_container_reqs[r] :
              (/\ task[o].metadata = task[r].metadata
               /\ task[o].spec.containers = task[r].spec.containers
               /\ run_pod_sandbox_reqs[o] # <<>>) =>
                  create_container_reqs[r][i].sandbox_config = run_pod_sandbox_reqs[o][1].config

\* both runs, on the same containers and with different sandbox ids, have
\* issued the CreateContainer of their last container
C19_Witness ==
    /\ task[1].spec.containers = task[2].spec.containers
    /\ \A r \in Runs :
          /\ Len(create_container_reqs[r]) = MaxContainers
          /\ Len(create_container_reqs[r][MaxContainers].sandbox_config.port_mappings) > 0
    /\ pod_sandbox_id[1] # pod_sandbox_id[2]

\* run has returned
Terminal(r) == pc[r] \in {"AllStarted", "Failed"}

\* run is suspended on an RPC
Waiting(r) == pc[r] \in {"SandboxRequested", "ContainerRequested", "ContainerCreated"}

C20_Bounded ==
    \A r \in Runs :
        /\ NumRequests(r) <= 1 + 2 * NumContainers(r)
        /\ Terminal(r) => result[r].tag \in {"Ok", "Err"}
        /\ Terminal(r) => Outstanding(r) = 0
        /\ Waiting(r) => Outstanding(r) = 1

C20_OnlyResponsesMove ==
    \A r \in Runs :
        /\ Terminal(r) =>
              pc'[r] = pc[r] /\ trace'[r] = trace[r] /\ result'[r] = result[r]
        /\ (Waiting(r) /\ RunState(r)' # RunState(r)) =>
              /\ Len(trace'[r]) > Len(trace[r])
              /\ trace'[r][Len(trace[r]) + 1].ev \in {"ok", "err"}
              /\ trace'[r][Len(trace[r]) + 1].kind = trace[r][Len(trace[r])].kind
        /\ (Waiting(r) /\ trace'[r] = trace[r]) => pc'[r] = pc[r]

\* C20: when every issued RPC is answered in the end, every run reaches
\* AllStarted or Failed, having issued at most 1 + 2n RPCs, and once there
\* issues nothing more; a run suspended on an RPC moves only by that RPC's
\* response: nothing else (no timeout, no cancellation) takes it to Failed.
C20_Terminates ==
    /\ \A r \in Runs : <> Terminal(r)
    /\ [] C20_Bounded
    /\ [][C20_OnlyResponsesMove]_vars

\* a run has reached AllStarted after 1 + 2n RPCs on the largest manifest,
\* the other has ended in Failed
C20_Witness ==
    \E r \in Runs, o \in Runs :
        /\ pc[r] = "AllStarted"
        /\ NumContainers(r) = MaxContainers
        /\ NumRequests(r) = 1 + 2 * MaxContainers
        /\ pc[o] = "Failed"

====
